---- MODULE Spec2Model ----
(***************************************************************************)
(* docusaurus-smg: the StaticMCP generator (src/src/index.js) and the      *)
(* bridge compatibility tester (src/unnamed/part_001).                     *)
(*                                                                         *)
(* A JavaScript string is a sequence of one-character strings, so that     *)
(* split, replace, sort, path.join and base64 work on characters.          *)
(***************************************************************************)
EXTENDS Integers, Sequences, FiniteSets, TLC

VARIABLES
    req,         \* which request this run is about: "resource", "tool", "document",
                 \* "yaml", "generate"
    pc,          \* "start", "written", "resolved", "hashed", "parsed"; in generate
                 \* "start", "cleaned", "scanning", "scanned", "done", "failed"
    uri,         \* the resource identifier
    toolName,    \* the operation name
    params,      \* the arguments: a sequence of [k, v] in insertion order
    content,     \* the document text given to parseFrontmatter
    filename,    \* saveResourceContent's local: encodeUriForFilename(uri)
    dirs,        \* directories that exist under the output directory
    files,       \* files the generator has written
    threw,       \* the writer call rejected (fs error)
    bridgePath,  \* the path the bridge simulation computed
    hash,        \* what hashParams returned for the arguments
    parsed,      \* parseFrontmatter's result
    yamlInput,   \* the text given to parseYaml
    yamlResult,  \* parseYaml's outcome: the mapping, and whether an error left it
    source,      \* the input directory: [config, files]
    baseUri,     \* options.baseUri
    resources,   \* this.resources
    tools,       \* this.tools
    fileText,    \* what each file under the output directory holds
    dirIndex,    \* processSourceDirectory's position in its paths
    calls        \* how many times generate has been called on this generator

vars == <<req, pc, uri, toolName, params, content, filename, dirs, files,
          threw, bridgePath, hash, parsed, yamlInput, yamlResult, source,
          baseUri, resources, tools, fileText, dirIndex, calls>>

\* the variables of a generate run
genVars == <<source, baseUri, resources, tools, fileText, dirIndex, calls>>

----------------------------------------------------------------------------
(* Characters *)

\* The printable ASCII characters in code order, from code 32. The entry for code
\* 96 is a placeholder (the lexer rejects that character in a string); no text of
\* the model holds it.
Ascii ==
    <<" ", "!", "\"", "#", "$", "%", "&", "'", "(", ")", "*", "+", ",", "-",
      ".", "/", "0", "1", "2", "3", "4", "5", "6", "7", "8", "9", ":", ";",
      "<", "=", ">", "?", "@", "A", "B", "C", "D", "E", "F", "G", "H", "I",
      "J", "K", "L", "M", "N", "O", "P", "Q", "R", "S", "T", "U", "V", "W",
      "X", "Y", "Z", "[", "\\", "]", "^", "_", "(backtick)", "a", "b", "c", "d", "e",
      "f", "g", "h", "i", "j", "k", "l", "m", "n", "o", "p", "q", "r", "s",
      "t", "u", "v", "w", "x", "y", "z", "{", "|", "}", "~">>

Chars == {Ascii[i] : i \in 1..Len(Ascii)} \cup {"\n"}

\* The UTF-16 code unit (and UTF-8 byte) of an ASCII character.
CharCode ==
    [c \in Chars |->
        IF c = "\n" THEN 10
        ELSE 31 + (CHOOSE i \in 1..Len(Ascii) : Ascii[i] = c)]

Base64Alphabet ==
    <<"A", "B", "C", "D", "E", "F", "G", "H", "I", "J", "K", "L", "M", "N",
      "O", "P", "Q", "R", "S", "T", "U", "V", "W", "X", "Y", "Z", "a", "b",
      "c", "d", "e", "f", "g", "h", "i", "j", "k", "l", "m", "n", "o", "p",
      "q", "r", "s", "t", "u", "v", "w", "x", "y", "z", "0", "1", "2", "3",
      "4", "5", "6", "7", "8", "9", "+", "/">>

----------------------------------------------------------------------------
(* String.prototype and Array.prototype *)

Min(a, b) == IF a < b THEN a ELSE b

\* s.substring(from) with a 0-based index
Substring(s, from) == SubSeq(s, from + 1, Len(s))

\* s.startsWith(p)
StartsWith(s, p) == Len(p) <= Len(s) /\ SubSeq(s, 1, Len(p)) = p

\* s.endsWith(p)
EndsWith(s, p) ==
    Len(p) <= Len(s) /\ SubSeq(s, Len(s) - Len(p) + 1, Len(s)) = p

\* s.indexOf(p): the 0-based index of the first occurrence, or -1
IndexOf(s, p) ==
    LET hits == {i \in 0..(Len(s) - Len(p)) : SubSeq(s, i + 1, i + Len(p)) = p}
    IN  IF hits = {} THEN -1 ELSE CHOOSE i \in hits : \A j \in hits : i <= j

\* s.includes(p)
Includes(s, p) == IndexOf(s, p) # -1

\* s.split(sep) for a non-empty separator
RECURSIVE Split(_, _)
Split(s, sep) ==
    LET i == IndexOf(s, sep)
    IN  IF i = -1 THEN <<s>>
        ELSE <<SubSeq(s, 1, i)>> \o Split(Substring(s, i + Len(sep)), sep)

\* parts.join(sep)
RECURSIVE Join(_, _)
Join(parts, sep) ==
    IF parts = <<>> THEN <<>>
    ELSE IF Len(parts) = 1 THEN parts[1]
    ELSE parts[1] \o sep \o Join(Tail(parts), sep)

\* a < b as JavaScript compares strings: by code unit, a proper prefix first
RECURSIVE StrLess(_, _)
StrLess(a, b) ==
    IF b = <<>> THEN FALSE
    ELSE IF a = <<>> THEN TRUE
    ELSE IF a[1] # b[1] THEN CharCode[a[1]] < CharCode[b[1]]
    ELSE StrLess(Tail(a), Tail(b))

\* Number.prototype.toString for a non-negative integer
RECURSIVE NumberToString(_)
NumberToString(n) ==
    IF n < 10 THEN <<Ascii[17 + n]>>
    ELSE NumberToString(n \div 10) \o <<Ascii[17 + (n % 10)]>>

----------------------------------------------------------------------------
(* String literals of the source *)

SchemeSep == <<":", "/", "/">>
FileScheme == <<"f", "i", "l", "e", ":", "/", "/">>
DotJson == <<".", "j", "s", "o", "n">>
ToolsName == <<"t", "o", "o", "l", "s">>
ResourcesName == <<"r", "e", "s", "o", "u", "r", "c", "e", "s">>
TrueText == <<"t", "r", "u", "e">>
FalseText == <<"f", "a", "l", "s", "e">>
ListResources ==
    <<"l", "i", "s", "t", "_", "r", "e", "s", "o", "u", "r", "c", "e", "s">>
GetResource == <<"g", "e", "t", "_", "r", "e", "s", "o", "u", "r", "c", "e">>

\* this.options.outputDir, and the tester's staticMcpPath for the same directory
OutputDir == <<"o", "u", "t">>

\* the character class of /[*?"<>|]/g
\* the length hashParams cuts its hash to
HashLength == 16

UnsafeChars == {"*", "?", "\"", "<", ">", "|"}

----------------------------------------------------------------------------
(* Argument values: typeof is "string", "number", "boolean", or "object"   *)
(* for an array of numbers.                                                *)

StrVal(s) == [type |-> "string", s |-> s, n |-> 0, b |-> FALSE, a |-> <<>>]
NumVal(n) == [type |-> "number", s |-> <<>>, n |-> n, b |-> FALSE, a |-> <<>>]
BoolVal(b) == [type |-> "boolean", s |-> <<>>, n |-> 0, b |-> b, a |-> <<>>]
ArrVal(a) == [type |-> "object", s |-> <<>>, n |-> 0, b |-> FALSE, a |-> a]

\* Array.prototype.join(',') over numbers
ArrayItems(a) == Join([i \in 1..Len(a) |-> NumberToString(a[i])], <<",">>)

\* String(v)
JsString(v) ==
    CASE v.type = "string" -> v.s
      [] v.type = "number" -> NumberToString(v.n)
      [] v.type = "boolean" -> IF v.b THEN TrueText ELSE FalseText
      [] OTHER -> ArrayItems(v.a)

\* JSON.stringify(v) for an array of numbers
JsonStringify(v) == <<"[">> \o ArrayItems(v.a) \o <<"]">>

\* s.replace(/[*?"<>|]/g, '_')
ReplaceUnsafe(s) ==
    [i \in 1..Len(s) |-> IF s[i] \in UnsafeChars THEN "_" ELSE s[i]]

\* [a, b].sort() with the default comparison
Sort2(a, b) == IF StrLess(b, a) THEN <<b, a>> ELSE <<a, b>>

\* entries.sort(([a], [b]) => a.localeCompare(b)) for distinct keys; the keys of the
\* model are lower-case letters, which localeCompare orders as their codes do
RECURSIVE SortByKey(_)
SortByKey(entries) ==
    IF entries = <<>> THEN <<>>
    ELSE LET m == CHOOSE i \in 1..Len(entries) :
                    \A j \in 1..Len(entries) :
                        j = i \/ StrLess(entries[i].k, entries[j].k)
             rest == [j \in 1..(Len(entries) - 1) |->
                        IF j < m THEN entries[j] ELSE entries[j + 1]]
         IN  <<entries[m]>> \o SortByKey(rest)

\* Buffer.from(s).toString('base64')
RECURSIVE Base64(_)
Base64(s) ==
    IF s = <<>> THEN <<>>
    ELSE LET n  == Min(3, Len(s))
             b1 == CharCode[s[1]]
             b2 == IF n >= 2 THEN CharCode[s[2]] ELSE 0
             b3 == IF n = 3 THEN CharCode[s[3]] ELSE 0
             w  == b1 * 65536 + b2 * 256 + b3
         IN  << Base64Alphabet[(w \div 262144) + 1],
                Base64Alphabet[((w \div 4096) % 64) + 1],
                IF n >= 2 THEN Base64Alphabet[((w \div 64) % 64) + 1] ELSE "=",
                IF n = 3 THEN Base64Alphabet[(w % 64) + 1] ELSE "=" >>
             \o Base64(Substring(s, n))

----------------------------------------------------------------------------
(* path (posix) *)

\* normalizeString: drop empty and "." segments, resolve ".."
RECURSIVE NormalizeSegments(_, _, _)
NormalizeSegments(segs, acc, allowAboveRoot) ==
    IF segs = <<>> THEN acc
    ELSE LET s == Head(segs) IN
         IF s = <<>> \/ s = <<".">>
         THEN NormalizeSegments(Tail(segs), acc, allowAboveRoot)
         ELSE IF s = <<".", ".">>
         THEN IF acc # <<>> /\ acc[Len(acc)] # <<".", ".">>
              THEN NormalizeSegments(Tail(segs), SubSeq(acc, 1, Len(acc) - 1),
                                     allowAboveRoot)
              ELSE IF allowAboveRoot
              THEN NormalizeSegments(Tail(segs), Append(acc, s), allowAboveRoot)
              ELSE NormalizeSegments(Tail(segs), acc, allowAboveRoot)
         ELSE NormalizeSegments(Tail(segs), Append(acc, s), allowAboveRoot)

\* path.normalize(p)
PathNormalize(p) ==
    IF p = <<>> THEN <<".">>
    ELSE LET isAbsolute == p[1] = "/"
             trailing   == p[Len(p)] = "/"
             body == Join(NormalizeSegments(Split(p, <<"/">>), <<>>, ~isAbsolute),
                          <<"/">>)
         IN  IF body = <<>>
             THEN IF isAbsolute THEN <<"/">>
                  ELSE IF trailing THEN <<".", "/">> ELSE <<".">>
             ELSE (IF isAbsolute THEN <<"/">> ELSE <<>>) \o body
                  \o (IF trailing THEN <<"/">> ELSE <<>>)

\* path.join(...parts): zero-length parts are ignored
PathJoin(parts) ==
    PathNormalize(Join(SelectSeq(parts, LAMBDA x : x # <<>>), <<"/">>))

\* path.dirname(p) of a path that does not end in "/"
PathDirname(p) ==
    LET slashes == {i \in 1..Len(p) : p[i] = "/"}
    IN  IF slashes = {} THEN <<".">>
        ELSE LET last == CHOOSE i \in slashes : \A j \in slashes : j <= i
             IN  IF last = 1 THEN <<"/">> ELSE SubSeq(p, 1, last - 1)

----------------------------------------------------------------------------
(* fs: the directories and files under the output directory *)

\* p and every directory above it
Ancestors(p) == {p} \cup {SubSeq(p, 1, i - 1) : i \in {j \in 2..Len(p) : p[j] = "/"}}

\* fs.mkdir(p, { recursive: true }): rejects when a file is in the way
Mkdir(st, p) ==
    IF st.threw THEN st
    ELSE IF Ancestors(p) \cap st.files # {} THEN [st EXCEPT !.threw = TRUE]
    ELSE [st EXCEPT !.dirs = @ \cup Ancestors(p)]

\* fs.writeFile(p, data): rejects when the parent directory is missing (ENOENT)
\* or p is a directory (EISDIR)
WriteFile(st, p) ==
    IF st.threw THEN st
    ELSE IF PathDirname(p) \notin st.dirs \/ p \in st.dirs
    THEN [st EXCEPT !.threw = TRUE]
    ELSE [st EXCEPT !.files = @ \cup {p}]

----------------------------------------------------------------------------
(* The generator: StaticMCPGenerator (src/src/index.js) *)

\* variant: the part after the first "://" however many parts the split yields
encodeUriForFilename_AnyParts(u) ==
    IF Includes(u, SchemeSep)
    THEN ReplaceUnsafe(Split(u, SchemeSep)[2])
    ELSE ReplaceUnsafe(u)

\* variant: the scheme is kept
encodeUriForFilename_KeepScheme(u) == ReplaceUnsafe(u)

encodeUriForFilename(u) ==
    IF Includes(u, SchemeSep) /\ Len(Split(u, SchemeSep)) = 2
    THEN ReplaceUnsafe(Split(u, SchemeSep)[2])
    ELSE ReplaceUnsafe(u)

\* the file path saveResourceContent computes
resourceFilePath(u) ==
    PathJoin(<<PathJoin(<<OutputDir, ResourcesName>>),
               encodeUriForFilename(u) \o DotJson>>)

saveResourceContent(st, u) ==
    WriteFile(Mkdir(st, PathDirname(resourceFilePath(u))), resourceFilePath(u))

\* the path segment createBridgeCompatiblePaths makes of one argument value
writerArgString(v) ==
    LET str == IF v.type = "string" /\ Includes(v.s, SchemeSep)
               THEN IF Len(Split(v.s, SchemeSep)) = 2
                    THEN Split(v.s, SchemeSep)[2]
                    ELSE v.s
               ELSE JsString(v)
    IN  ReplaceUnsafe(str)

\* createToolsDirectory's toolDir
toolDirOf(tName) == PathJoin(<<OutputDir, ToolsName, tName>>)

\* variant: the file of a call without arguments inside toolDir
zeroArgPath_InsideToolDir(toolDir, tName) ==
    PathJoin(<<toolDir, tName \o DotJson>>)

\* the bridgePath of a call without arguments
zeroArgPath(toolDir, tName) ==
    PathJoin(<<PathDirname(toolDir), tName \o DotJson>>)

\* the bridgePath of a call with one argument
oneArgPath(toolDir, v) == PathJoin(<<toolDir, writerArgString(v) \o DotJson>>)

createBridgeCompatiblePaths(st, toolDir, tName, ps) ==
    IF Len(ps) = 0
    THEN WriteFile(st, zeroArgPath(toolDir, tName))
    ELSE LET one ==
                 IF Len(ps) = 1
                 THEN LET bridge == oneArgPath(toolDir, ps[1].v)
                      IN  WriteFile(Mkdir(st, PathDirname(bridge)), bridge)
                 ELSE st
         IN  IF Len(ps) = 2
             THEN LET values == Sort2(writerArgString(ps[1].v),
                                      writerArgString(ps[2].v))
                      subDir == PathJoin(<<toolDir, values[1]>>)
                  IN  WriteFile(Mkdir(one, subDir),
                                PathJoin(<<subDir, values[2] \o DotJson>>))
             ELSE one

\* hashParams of the TypeScript generator, for three or more arguments (with fewer
\* it returns an md5 digest, which is outside this model)
hashParams(ps) ==
    LET sorted == SortByKey(ps)
        sortedArgs ==
            Join([i \in 1..Len(sorted) |->
                     sorted[i].k \o <<"=">>
                     \o (IF sorted[i].v.type = "string" THEN sorted[i].v.s
                         ELSE IF sorted[i].v.type = "number"
                         THEN NumberToString(sorted[i].v.n)
                         ELSE IF sorted[i].v.type = "boolean"
                         THEN (IF sorted[i].v.b THEN TrueText ELSE FalseText)
                         ELSE JsonStringify(sorted[i].v))],
                 <<"&">>)
        base64 == Base64(sortedArgs)
        base64Hash ==
            SelectSeq([i \in 1..Len(base64) |->
                          IF base64[i] \in {"/", "+"} THEN "_" ELSE base64[i]],
                      LAMBDA c : c # "=")
    IN  SubSeq(base64Hash, 1, Min(HashLength, Len(base64Hash)))

----------------------------------------------------------------------------
(* parseFrontmatter *)

Fence == <<"-", "-", "-">>

\* \s, over the characters the documents of the model hold
IsSpace(c) == c \in {" ", "\n"}

Digits == {"0", "1", "2", "3", "4", "5", "6", "7", "8", "9"}

SetMax(S) == CHOOSE x \in S : \A y \in S : y <= x
SetMin(S) == CHOOSE x \in S : \A y \in S : x <= y

\* the indices k at which a match of \s*\n that starts at index from can end
SpaceRunEnds(t, from) ==
    {k \in from..Len(t) : t[k] = "\n" /\ \A i \in from..(k - 1) : IsSpace(t[i])}

\* \n<close>\s*\n matches at index j
ClosesAt(t, close, j) ==
    /\ j + Len(close) <= Len(t)
    /\ t[j] = "\n"
    /\ SubSeq(t, j + 1, j + Len(close)) = close
    /\ SpaceRunEnds(t, j + Len(close) + 1) # {}

NoMatch == [matched |-> FALSE, block |-> <<>>, rest |-> <<>>]

\* t.match(/^<open>\s*\n([\s\S]*?)\n<close>\s*\n([\s\S]*)$/): the first \s* takes
\* the longest run that lets the rest match, the first group the shortest text, the
\* second \s* the longest run
blockMatch(t, open, close) ==
    LET opens == IF StartsWith(t, open)
                 THEN {k \in SpaceRunEnds(t, Len(open) + 1) :
                          \E j \in (k + 1)..Len(t) : ClosesAt(t, close, j)}
                 ELSE {}
    IN  IF opens = {} THEN NoMatch
        ELSE LET k == SetMax(opens)
                 j == SetMin({x \in (k + 1)..Len(t) : ClosesAt(t, close, x)})
                 e == SetMax(SpaceRunEnds(t, j + Len(close) + 1))
             IN  [matched |-> TRUE,
                  block   |-> SubSeq(t, k + 1, j - 1),
                  rest    |-> SubSeq(t, e + 1, Len(t))]

\* JSON.parse of an object literal whose values are strings and integers, which
\* is all the documents of the model can hold: whether it parses

RECURSIVE JsonSkip(_, _)
JsonSkip(t, i) ==
    IF i <= Len(t) /\ IsSpace(t[i]) THEN JsonSkip(t, i + 1) ELSE i

\* the index after the string that starts at i, or 0
JsonStringEnd(t, i) ==
    IF i > Len(t) \/ t[i] # "\"" THEN 0
    ELSE LET ends == {j \in (i + 1)..Len(t) : t[j] = "\""}
         IN  IF ends = {} THEN 0
             ELSE IF \E m \in (i + 1)..(SetMin(ends) - 1) : t[m] \in {"\n", "\\"}
             THEN 0
             ELSE SetMin(ends) + 1

\* the index after the integer that starts at i, or 0
JsonNumberEnd(t, i) ==
    LET s == IF i <= Len(t) /\ t[i] = "-" THEN i + 1 ELSE i
        stops == {j \in s..(Len(t) + 1) : j = Len(t) + 1 \/ t[j] \notin Digits}
        e == SetMin(stops)
    IN  IF s > Len(t) \/ e = s THEN 0
        ELSE IF t[s] = "0" /\ e > s + 1 THEN 0
        ELSE e

JsonValueEnd(t, i) ==
    IF JsonStringEnd(t, i) # 0 THEN JsonStringEnd(t, i) ELSE JsonNumberEnd(t, i)

\* the index after the members that start at i, or 0
RECURSIVE JsonMembersEnd(_, _)
JsonMembersEnd(t, i) ==
    LET a == JsonStringEnd(t, i)
        b == JsonSkip(t, a)
        c == JsonSkip(t, b + 1)
        d == JsonValueEnd(t, c)
        e == JsonSkip(t, d)
    IN  IF a = 0 THEN 0
        ELSE IF b > Len(t) \/ t[b] # ":" THEN 0
        ELSE IF d = 0 THEN 0
        ELSE IF e <= Len(t) /\ t[e] = ","
        THEN JsonMembersEnd(t, JsonSkip(t, e + 1))
        ELSE e

JsonObjectParses(t) ==
    LET i == JsonSkip(t, 1)
        j == JsonSkip(t, i + 1)
        e == IF j <= Len(t) /\ t[j] = "}" THEN j ELSE JsonMembersEnd(t, j)
    IN  /\ i <= Len(t) /\ t[i] = "{"
        /\ e # 0 /\ e <= Len(t) /\ t[e] = "}"
        /\ JsonSkip(t, e + 1) > Len(t)

\* variant: a JSON-style block that fails to parse is still cut off the body
parseFrontmatter_DropsBadBlock(t) ==
    LET yamlMatch == blockMatch(t, Fence, Fence)
        jsonMatch == blockMatch(t, <<"{">>, <<"}">>)
    IN  IF yamlMatch.matched
        THEN [kind |-> "yaml", meta |-> yamlMatch.block, content |-> yamlMatch.rest]
        ELSE IF jsonMatch.matched
        THEN IF JsonObjectParses(<<"{">> \o jsonMatch.block \o <<"}">>)
             THEN [kind |-> "json", meta |-> <<"{">> \o jsonMatch.block \o <<"}">>,
                   content |-> jsonMatch.rest]
             ELSE [kind |-> "none", meta |-> <<>>, content |-> jsonMatch.rest]
        ELSE [kind |-> "none", meta |-> <<>>, content |-> t]

\* kind: which block was found; meta: the text handed to parseYaml or to
\* JSON.parse (empty for the empty mapping of kind "none"); content: the body
\* returned. The error of JSON.parse is caught inside (lines 29-34), so no outcome
\* of parseFrontmatter is an error.
parseFrontmatter(t) ==
    LET yamlMatch == blockMatch(t, Fence, Fence)
        jsonMatch == blockMatch(t, <<"{">>, <<"}">>)
    IN  IF yamlMatch.matched
        THEN [kind |-> "yaml", meta |-> yamlMatch.block, content |-> yamlMatch.rest]
        ELSE IF jsonMatch.matched
                /\ JsonObjectParses(<<"{">> \o jsonMatch.block \o <<"}">>)
        THEN [kind |-> "json", meta |-> <<"{">> \o jsonMatch.block \o <<"}">>,
              content |-> jsonMatch.rest]
        ELSE [kind |-> "none", meta |-> <<>>, content |-> t]

----------------------------------------------------------------------------
(* parseYaml and parseMultilineValue. Line indices are the 0-based indices of *)
(* the source: lines[i] of the source is LineAt(lines, i).                    *)

\* s.trimStart(), s.trimEnd(), s.trim()
RECURSIVE TrimStart(_)
TrimStart(s) ==
    IF s # <<>> /\ IsSpace(Head(s)) THEN TrimStart(Tail(s)) ELSE s

RECURSIVE TrimEnd(_)
TrimEnd(s) ==
    IF s # <<>> /\ IsSpace(s[Len(s)]) THEN TrimEnd(SubSeq(s, 1, Len(s) - 1)) ELSE s

Trim(s) == TrimEnd(TrimStart(s))

LineAt(lines, i) == lines[i + 1]

\* line.length - line.trimStart().length
IndentOf(line) == Len(line) - Len(TrimStart(line))

\* the values a mapping holds: a block array of strings, and what JSON.parse
\* makes of an inline array
ListVal(items) ==
    [type |-> "list", s |-> <<>>, n |-> 0, b |-> FALSE, a |-> items]
JsonVal(items) ==
    [type |-> "json", s |-> <<>>, n |-> 0, b |-> FALSE, a |-> items]

\* result[key] = v
SetKey(result, key, v) ==
    [x \in DOMAIN result \cup {key} |-> IF x = key THEN v ELSE result[x]]

\* the empty object
EmptyObject == [x \in {} |-> <<>>]

\* the loop of lines 86-92: the indentation of the first non-blank line after
\* startIndex, 0 when there is none
baseIndentOf(lines, startIndex) ==
    LET nonBlank == {i \in (startIndex + 1)..(Len(lines) - 1) :
                        Trim(LineAt(lines, i)) # <<>>}
    IN  IF nonBlank = {} THEN 0 ELSE IndentOf(LineAt(lines, SetMin(nonBlank)))

\* variant: a literal block whose lines are trimmed
RECURSIVE literalLoop_Trims(_, _, _, _)
literalLoop_Trims(lines, i, baseIndent, values) ==
    IF i >= Len(lines) THEN [values |-> values, i |-> i]
    ELSE LET line == LineAt(lines, i)
         IN  IF Trim(line) = <<>>
             THEN literalLoop_Trims(lines, i + 1, baseIndent, Append(values, <<>>))
             ELSE IF IndentOf(line) < baseIndent
             THEN [values |-> values, i |-> i - 1]
             ELSE literalLoop_Trims(lines, i + 1, baseIndent,
                                    Append(values, Trim(line)))

\* the loop of lines 96-108
RECURSIVE literalLoop(_, _, _, _)
literalLoop(lines, i, baseIndent, values) ==
    IF i >= Len(lines) THEN [values |-> values, i |-> i]
    ELSE LET line == LineAt(lines, i)
         IN  IF Trim(line) = <<>>
             THEN literalLoop(lines, i + 1, baseIndent, Append(values, <<>>))
             ELSE IF IndentOf(line) < baseIndent
             THEN [values |-> values, i |-> i - 1]
             ELSE literalLoop(lines, i + 1, baseIndent,
                              Append(values, Substring(line, baseIndent)))

\* variant: a folded block in which a blank line contributes an empty string
RECURSIVE foldedLoop_KeepsBlank(_, _, _, _)
foldedLoop_KeepsBlank(lines, i, baseIndent, values) ==
    IF i >= Len(lines) THEN [values |-> values, i |-> i]
    ELSE LET line == LineAt(lines, i)
         IN  IF Trim(line) = <<>>
             THEN foldedLoop_KeepsBlank(lines, i + 1, baseIndent,
                                        Append(values, <<>>))
             ELSE IF IndentOf(line) < baseIndent
             THEN [values |-> values, i |-> i - 1]
             ELSE foldedLoop_KeepsBlank(lines, i + 1, baseIndent,
                                        Append(values, Trim(line)))

\* the loop of lines 112-122
RECURSIVE foldedLoop(_, _, _, _)
foldedLoop(lines, i, baseIndent, values) ==
    IF i >= Len(lines) THEN [values |-> values, i |-> i]
    ELSE LET line == LineAt(lines, i)
         IN  IF Trim(line) = <<>>
             THEN foldedLoop(lines, i + 1, baseIndent, values)
             ELSE IF IndentOf(line) < baseIndent
             THEN [values |-> values, i |-> i - 1]
             ELSE foldedLoop(lines, i + 1, baseIndent, Append(values, Trim(line)))

\* variant: a block array that backs up twice at the line that ends it
RECURSIVE arrayLoop_BacksUpTwice(_, _, _, _)
arrayLoop_BacksUpTwice(lines, i, baseIndent, values) ==
    IF i >= Len(lines) THEN [values |-> values, i |-> i]
    ELSE LET line == LineAt(lines, i)
             trimmed == Trim(line)
         IN  IF trimmed = <<>>
             THEN arrayLoop_BacksUpTwice(lines, i + 1, baseIndent, values)
             ELSE IF IndentOf(line) < baseIndent
             THEN [values |-> values, i |-> i - 2]
             ELSE IF StartsWith(trimmed, <<"-", " ">>)
             THEN arrayLoop_BacksUpTwice(lines, i + 1, baseIndent,
                                         Append(values, Substring(trimmed, 2)))
             ELSE IF IndentOf(line) >= baseIndent /\ Len(values) > 0
             THEN arrayLoop_BacksUpTwice(lines, i + 1, baseIndent,
                            [values EXCEPT ![Len(values)] = @ \o <<" ">> \o trimmed])
             ELSE [values |-> values, i |-> i - 2]

\* variant: a block array that does not back up at the line that ends it
RECURSIVE arrayLoop_NoBackup(_, _, _, _)
arrayLoop_NoBackup(lines, i, baseIndent, values) ==
    IF i >= Len(lines) THEN [values |-> values, i |-> i]
    ELSE LET line == LineAt(lines, i)
             trimmed == Trim(line)
         IN  IF trimmed = <<>>
             THEN arrayLoop_NoBackup(lines, i + 1, baseIndent, values)
             ELSE IF IndentOf(line) < baseIndent
             THEN [values |-> values, i |-> i]
             ELSE IF StartsWith(trimmed, <<"-", " ">>)
             THEN arrayLoop_NoBackup(lines, i + 1, baseIndent,
                                     Append(values, Substring(trimmed, 2)))
             ELSE IF IndentOf(line) >= baseIndent /\ Len(values) > 0
             THEN arrayLoop_NoBackup(lines, i + 1, baseIndent,
                            [values EXCEPT ![Len(values)] = @ \o <<" ">> \o trimmed])
             ELSE [values |-> values, i |-> i]

\* the loop of lines 125-145
RECURSIVE arrayLoop(_, _, _, _)
arrayLoop(lines, i, baseIndent, values) ==
    IF i >= Len(lines) THEN [values |-> values, i |-> i]
    ELSE LET line == LineAt(lines, i)
             trimmed == Trim(line)
         IN  IF trimmed = <<>>
             THEN arrayLoop(lines, i + 1, baseIndent, values)
             ELSE IF IndentOf(line) < baseIndent
             THEN [values |-> values, i |-> i - 1]
             ELSE IF StartsWith(trimmed, <<"-", " ">>)
             THEN arrayLoop(lines, i + 1, baseIndent,
                            Append(values, Substring(trimmed, 2)))
             ELSE IF IndentOf(line) >= baseIndent /\ Len(values) > 0
             THEN arrayLoop(lines, i + 1, baseIndent,
                            [values EXCEPT ![Len(values)] = @ \o <<" ">> \o trimmed])
             ELSE [values |-> values, i |-> i - 1]

parseMultilineValue(lines, startIndex) ==
    LET startLine == LineAt(lines, startIndex)
        value == Trim(Substring(startLine, IndexOf(startLine, <<":">>) + 1))
        baseIndent == baseIndentOf(lines, startIndex)
        i == startIndex + 1
    IN  IF value = <<"|">>
        THEN LET r == literalLoop(lines, i, baseIndent, <<>>)
             IN  [value |-> StrVal(Join(r.values, <<"\n">>)), lastIndex |-> r.i]
        ELSE IF value = <<">">>
        THEN LET r == foldedLoop(lines, i, baseIndent, <<>>)
             IN  [value |-> StrVal(Join(r.values, <<" ">>)), lastIndex |-> r.i]
        ELSE LET r == arrayLoop(lines, i, baseIndent, <<>>)
             IN  [value |-> ListVal(r.values), lastIndex |-> r.i]

\* Number(value) for the values of the model, which hold no character of a number
\* but the minus sign and the decimal digits: whether it is a number, and which
IsNumberText(s) ==
    LET d == IF s # <<>> /\ s[1] = "-" THEN Tail(s) ELSE s
    IN  d # <<>> /\ \A i \in 1..Len(d) : d[i] \in Digits

RECURSIVE DigitsValue(_)
DigitsValue(d) ==
    IF d = <<>> THEN 0
    ELSE 10 * DigitsValue(SubSeq(d, 1, Len(d) - 1)) + (CharCode[d[Len(d)]] - 48)

ToNumber(s) == IF s[1] = "-" THEN 0 - DigitsValue(Tail(s)) ELSE DigitsValue(s)

JsonFailed == [ok |-> FALSE, items |-> <<>>]

\* the elements of a JSON array from index i on, up to the closing bracket and the
\* end of the text; the elements of the model are strings and integers
RECURSIVE JsonElements(_, _, _)
JsonElements(t, i, acc) ==
    LET e == JsonValueEnd(t, i)
        item == IF t[i] = "\"" THEN StrVal(SubSeq(t, i + 1, e - 2))
                ELSE NumVal(ToNumber(SubSeq(t, i, e - 1)))
        j == JsonSkip(t, e)
    IN  IF i > Len(t) \/ e = 0 \/ j > Len(t) THEN JsonFailed
        ELSE IF t[j] = "," THEN JsonElements(t, JsonSkip(t, j + 1), Append(acc, item))
        ELSE IF t[j] = "]" /\ JsonSkip(t, j + 1) > Len(t)
        THEN [ok |-> TRUE, items |-> Append(acc, item)]
        ELSE JsonFailed

\* JSON.parse(value) of a value that starts with [ and ends with ]
JsonArrayParse(t) ==
    LET j == JsonSkip(t, 2)
    IN  IF j <= Len(t) /\ t[j] = "]"
        THEN IF JsonSkip(t, j + 1) > Len(t) THEN [ok |-> TRUE, items |-> <<>>]
             ELSE JsonFailed
        ELSE JsonElements(t, j, <<>>)

\* variant: the error of JSON.parse is not caught
scalarValue_Uncaught(value) ==
    IF StartsWith(value, <<"[">>) /\ EndsWith(value, <<"]">>)
    THEN IF JsonArrayParse(value).ok
         THEN [value |-> JsonVal(JsonArrayParse(value).items), threw |-> FALSE]
         ELSE [value |-> StrVal(value), threw |-> TRUE]
    ELSE [value |-> StrVal(value), threw |-> FALSE]

\* lines 56-78: the value of a single-line entry; threw: an error leaves parseYaml
scalarValue(value) ==
    LET wrapped(q) == StartsWith(value, <<q>>) /\ EndsWith(value, <<q>>)
        v == IF StartsWith(value, <<"[">>) /\ EndsWith(value, <<"]">>)
                /\ JsonArrayParse(value).ok
             THEN JsonVal(JsonArrayParse(value).items)
             ELSE IF wrapped("\"") \/ wrapped("'")
             THEN StrVal(SubSeq(value, 2, Len(value) - 1))
             ELSE IF value = TrueText THEN BoolVal(TRUE)
             ELSE IF value = FalseText THEN BoolVal(FALSE)
             ELSE IF IsNumberText(value) /\ value # <<>> THEN NumVal(ToNumber(value))
             ELSE StrVal(value)
    IN  [value |-> v, threw |-> FALSE]

\* variant: the line is split at its last colon
colonIndexOf_Last(line) ==
    IF \A j \in 1..Len(line) : line[j] # ":" THEN -1
    ELSE SetMax({j \in 1..Len(line) : line[j] = ":"}) - 1

\* line 45: line.indexOf(':')
colonIndexOf(line) == IndexOf(line, <<":">>)

\* the loop of lines 41-79 from index i on
RECURSIVE parseYamlLoop(_, _, _)
parseYamlLoop(lines, i, result) ==
    IF i >= Len(lines) THEN [data |-> result, threw |-> FALSE]
    ELSE LET line == Trim(LineAt(lines, i))
             colonIndex == colonIndexOf(line)
             key == Trim(SubSeq(line, 1, colonIndex))
             value == Trim(Substring(line, colonIndex + 1))
         IN  IF line = <<>> \/ StartsWith(line, <<"#">>)
             THEN parseYamlLoop(lines, i + 1, result)
             ELSE IF colonIndex = -1
             THEN parseYamlLoop(lines, i + 1, result)
             ELSE IF value = <<>> \/ value = <<"|">> \/ value = <<">">>
             THEN LET multilineValue == parseMultilineValue(lines, i)
                  IN  parseYamlLoop(lines, multilineValue.lastIndex + 1,
                                    SetKey(result, key, multilineValue.value))
             ELSE LET scalar == scalarValue(value)
                  IN  IF scalar.threw THEN [data |-> result, threw |-> TRUE]
                      ELSE parseYamlLoop(lines, i + 1,
                                         SetKey(result, key, scalar.value))

parseYaml(yamlContent) == parseYamlLoop(Split(yamlContent, <<"\n">>), 0, EmptyObject)

----------------------------------------------------------------------------
(* generate. The generator is the record [resources, tools, fs]; fs is the     *)
(* output file system [dirs, files, threw, text], text giving what each file   *)
(* holds.                                                                      *)

McpJson == <<"m", "c", "p", ".", "j", "s", "o", "n">>
DocsDir == <<"d", "o", "c", "s">>
BlogDir == <<"b", "l", "o", "g">>
PagesDir == <<"s", "r", "c", "/", "p", "a", "g", "e", "s">>
UriKey == <<"u", "r", "i">>

\* processSourceDirectory's paths: the directory under inputPath, and its type
ContentPaths ==
    <<[dir |-> DocsDir, type |-> "docs"],
      [dir |-> BlogDir, type |-> "blog"],
      [dir |-> PagesDir, type |-> "pages"]>>

\* fs.writeFile(p, data) with the data
WriteText(fs, p, data) ==
    LET w == WriteFile(fs, p)
    IN  IF w.threw THEN w ELSE [w EXCEPT !.text = SetKey(@, p, data)]

\* relativePath.replace(/\.(md|mdx)$/, '')
StripMarkdownExt(p) ==
    IF EndsWith(p, <<".", "m", "d">>) THEN SubSeq(p, 1, Len(p) - 3)
    ELSE IF EndsWith(p, <<".", "m", "d", "x">>) THEN SubSeq(p, 1, Len(p) - 4)
    ELSE p

\* processMarkdownFile's uri for the file at relativePath under inputPath
uriOf(relativePath, base) == base \o SchemeSep \o StripMarkdownExt(relativePath)

\* saveResourceContent with the response it writes
saveResourceResponse(fs, u, text) ==
    WriteText(Mkdir(fs, PathDirname(resourceFilePath(u))), resourceFilePath(u),
              [uri |-> u, text |-> text])

\* a file is [dir, path (relative to inputPath), text, readable]; fs.readFile
\* rejects for a file that is not readable
processMarkdownFile(g, file, base) ==
    IF ~file.readable THEN [g EXCEPT !.fs.threw = TRUE]
    ELSE LET doc == parseFrontmatter(file.text)
             u == uriOf(file.path, base)
         IN  [g EXCEPT !.resources = Append(@, [uri |-> u, content |-> doc.content]),
                       !.fs = saveResourceResponse(@, u, doc.content)]

\* the loop of processMarkdownDirectory: an error ends it
RECURSIVE processMarkdownDirectory(_, _, _)
processMarkdownDirectory(g, mdFiles, base) ==
    IF mdFiles = <<>> THEN g
    ELSE LET g1 == processMarkdownFile(g, Head(mdFiles), base)
         IN  IF g1.fs.threw THEN g1
             ELSE processMarkdownDirectory(g1, Tail(mdFiles), base)

\* one round of processSourceDirectory's loop: the error of the directory is caught
processContentPath(g, src, entry, base) ==
    LET mdFiles == SelectSeq(src.files, LAMBDA f : f.dir = entry.dir)
        g1 == processMarkdownDirectory(g, mdFiles, base)
    IN  [g1 EXCEPT !.fs.threw = FALSE]

\* variant: the entries are rendered last resource first
listResourcesResponse_Reversed(rs) ==
    [i \in 1..Len(rs) |-> encodeUriForFilename(rs[Len(rs) + 1 - i].uri)]

\* generateToolResponse
listResourcesResponse(rs) ==
    [i \in 1..Len(rs) |-> encodeUriForFilename(rs[i].uri)]

getResourceResponse(rs, u) ==
    LET found == {i \in 1..Len(rs) : rs[i].uri = u}
    IN  IF found = {} THEN [error |-> TRUE]
        ELSE [uri |-> rs[SetMin(found)].uri, content |-> rs[SetMin(found)].content]

\* createSampleToolResponses for get_resource: one response for each resource
RECURSIVE getResourceSamples(_, _, _, _)
getResourceSamples(fs, toolDir, rs, i) ==
    IF i > Len(rs) THEN fs
    ELSE LET u == rs[i].uri
             bridge == oneArgPath(toolDir, StrVal(u))
             w == WriteText(Mkdir(fs, PathDirname(bridge)), bridge,
                            getResourceResponse(rs, u))
         IN  getResourceSamples(w, toolDir, rs, i + 1)

createSampleToolResponses(fs, toolDir, tName, rs) ==
    IF tName = ListResources
    THEN WriteText(fs, zeroArgPath(toolDir, tName), listResourcesResponse(rs))
    ELSE IF tName = GetResource THEN getResourceSamples(fs, toolDir, rs, 1)
    ELSE fs

\* createToolsDirectory's loop over this.tools
RECURSIVE createToolResponses(_, _, _)
createToolResponses(fs, toolNames, rs) ==
    IF toolNames = <<>> THEN fs
    ELSE createToolResponses(
             createSampleToolResponses(fs, toolDirOf(Head(toolNames)),
                                       Head(toolNames), rs),
             Tail(toolNames), rs)

generateResourceTools == <<ListResources, GetResource>>

\* generateManifest, createToolsDirectory included
generateManifest(g) ==
    LET allTools == g.tools \o generateResourceTools
        manifest == [resources |-> [i \in 1..Len(g.resources) |-> g.resources[i].uri],
                     tools |-> allTools]
        fs1 == WriteText(g.fs, PathJoin(<<OutputDir, McpJson>>), manifest)
        fs2 == Mkdir(fs1, PathJoin(<<OutputDir, ToolsName>>))
    IN  [g EXCEPT !.tools = allTools,
                  !.fs = createToolResponses(fs2, allTools, g.resources)]

----------------------------------------------------------------------------
(* The bridge simulation: BridgeCompatibilityTester (src/unnamed/part_001) *)

simulateBridgeUriToPath(u) ==
    IF StartsWith(u, FileScheme)
    THEN ResourcesName \o <<"/">> \o Substring(u, 7) \o DotJson
    ELSE IF Includes(u, SchemeSep)
    THEN IF Len(Split(u, SchemeSep)) = 2
         THEN ResourcesName \o <<"/">> \o Split(u, SchemeSep)[2] \o DotJson
         ELSE u \o DotJson
    ELSE IF EndsWith(u, DotJson) THEN u
    ELSE u \o DotJson

\* the text the bridge makes of one argument value
bridgeArgString(v) ==
    IF v.type = "string" THEN v.s
    ELSE IF v.type = "number" THEN NumberToString(v.n)
    ELSE IF v.type = "boolean" THEN (IF v.b THEN TrueText ELSE FalseText)
    ELSE JsonStringify(v)

\* the hash of the joined arguments
bridgeHash(sortedArgs) ==
    LET base64 == Base64(sortedArgs)
    IN  SelectSeq([i \in 1..Len(base64) |->
                      IF base64[i] \in {"/", "+"} THEN "_" ELSE base64[i]],
                  LAMBDA c : c # "=")

simulateBridgeToolToPath(tName, args) ==
    LET toolDir == ToolsName \o <<"/">> \o tName
    IN  IF Len(args) = 0 THEN toolDir \o DotJson
        ELSE IF Len(args) = 1
        THEN toolDir \o <<"/">> \o bridgeArgString(args[1].v) \o DotJson
        ELSE IF Len(args) = 2
        THEN LET values == Sort2(bridgeArgString(args[1].v),
                                 bridgeArgString(args[2].v))
             IN  toolDir \o <<"/">> \o values[1] \o <<"/">> \o values[2] \o DotJson
        ELSE LET sorted == SortByKey(args)
                 sortedArgs ==
                     Join([i \in 1..Len(sorted) |->
                              sorted[i].k \o <<"=">> \o bridgeArgString(sorted[i].v)],
                          <<"&">>)
             IN  toolDir \o <<"/">> \o bridgeHash(sortedArgs) \o DotJson

\* testTools: the file the tester reads for a path the bridge computed
bridgeFile(path) == PathJoin(<<OutputDir, path>>)

----------------------------------------------------------------------------
(* Inputs *)

MaxUriLen == 3
MaxArgLen == 2
MaxArgs == 3

\* every sequence over alphabet of length at most n
StringsUpTo(alphabet, n) == UNION {[1..k -> alphabet] : k \in 0..n}

InputAlphabet == {"A", ":", "/"} \cup UnsafeChars

DocsScheme == <<"d", "o", "c", "s", ":", "/", "/">>

\* identifiers: bare, with a scheme, with the file scheme, ending in .json
Uris ==
    LET bodies == StringsUpTo(InputAlphabet, MaxUriLen)
    IN  bodies \cup {DocsScheme \o b : b \in bodies}
               \cup {FileScheme \o b : b \in bodies}
               \cup {b \o DotJson : b \in bodies}

ToolNames == {ListResources, GetResource}

ArgKeys == {<<"a">>, <<"b">>, <<"c">>, <<"d">>}

ScalarValues ==
    {NumVal(0), NumVal(7), NumVal(12), BoolVal(TRUE), BoolVal(FALSE),
     ArrVal(<<>>), ArrVal(<<1, 2>>)}

\* the values of a single argument
ArgValues ==
    LET bodies == StringsUpTo(InputAlphabet, MaxArgLen)
    IN  {StrVal(b) : b \in bodies} \cup {StrVal(DocsScheme \o b) : b \in bodies}
        \cup ScalarValues

\* the values of the other argument of a two-argument call
SecondValues ==
    {StrVal(<<>>), StrVal(<<"A">>), StrVal(<<"?">>), StrVal(<<"A", "/", "A">>),
     StrVal(DocsScheme \o <<"A">>), NumVal(7), BoolVal(TRUE), ArrVal(<<1, 2>>)}

\* the values of a call with three or more arguments
HashValues ==
    {StrVal(<<"?">>), StrVal(<<">", "A">>), NumVal(12), ArrVal(<<1, 2>>)}

\* the key sequences of n distinct keys, in insertion order
KeySeqs(n) ==
    {ks \in [1..n -> ArgKeys] : \A i, j \in 1..n : i # j => ks[i] # ks[j]}

ArgMaps ==
    {<<>>}
    \cup {<<[k |-> <<"a">>, v |-> v]>> : v \in ArgValues}
    \cup {<<[k |-> <<"a">>, v |-> vs[1]], [k |-> <<"b">>, v |-> vs[2]]>> :
            vs \in (ArgValues \X SecondValues) \cup (SecondValues \X SecondValues)}
    \cup UNION {{[i \in 1..n |-> [k |-> ks[i], v |-> vs[i]]] :
                    ks \in KeySeqs(n), vs \in [1..n -> HashValues]} :
                n \in 3..MaxArgs}

MaxDocLines == 5

\* a document is its lines joined by newlines; a last empty line ends the text
\* with a newline
FirstLines == {Fence, Fence \o <<" ">>, <<"{">>, <<"B">>}

LaterLines ==
    {Fence, Fence \o <<" ">>, <<>>, <<"k", ":", " ", "v">>, <<"B">>, <<"}">>,
     <<"\"", "k", "\"", ":", "1">>}

Documents ==
    {Join(<<f>> \o rest, <<"\n">>) :
        f \in FirstLines,
        rest \in UNION {[1..n -> LaterLines] : n \in 0..(MaxDocLines - 1)}}

MaxYamlLines == 4

\* the line of an entry with a multi-line value
YamlKeyLines ==
    {<<"k", ":", " ", "|">>, <<"k", ":", " ", ">">>, <<"k", ":">>}

\* the lines that follow it: text at indentation 2 (one with trailing blanks), 4,
\* 1 and 0, items, a blank line, a line of blanks, an entry
YamlBlockLines ==
    {<<" ", " ", "a">>, <<" ", " ", "b", " ", " ">>, <<" ", " ", " ", " ", "c">>,
     <<" ", "d">>, <<"e">>, <<"-", " ", "a">>, <<" ", " ", "-", " ", "b">>,
     <<>>, <<" ", " ">>, <<"t", ":", " ", "v">>}

\* single-line values, within and outside the supported subset
YamlScalarTexts ==
    {<<"[", "1", ",", " ", "2", "]">>, <<"[", "\"", "a", "\"", "]">>,
     <<"[", "a", "]">>, <<"[", "]">>, <<"[", "1", ",", "]">>,
     <<"\"", "a", "\"">>, <<"'", "a", "'">>, <<"\"">>, <<"\"", "a">>,
     <<"\"", "1", "2", "\"">>, <<"'", "[", "1", "]", "'">>,
     TrueText, FalseText, <<"1", "2">>, <<"-", "7">>, <<"1", "-">>,
     <<"a", " ", "b">>, <<"a", ":", " ", "b">>, <<"{", "a", "}">>}

\* lines that are no entry: a comment, an indented comment, a line without a
\* colon, an empty line, a line of blanks
YamlOtherLines ==
    {<<"#", " ", "c", ":", "d">>, <<" ", "#", "c", ":", "d">>, <<"e">>, <<>>,
     <<" ", " ">>}

YamlTexts ==
    {Join(<<f>> \o rest, <<"\n">>) :
        f \in YamlKeyLines,
        rest \in UNION {[1..n -> YamlBlockLines] : n \in 0..(MaxYamlLines - 1)}}
    \cup {<<"k", ":", " ">> \o v : v \in YamlScalarTexts}
    \cup {Join(<<o, <<"k", ":", " ">> \o v, <<"t", ":", " ", "v">>>>, <<"\n">>) :
            o \in YamlOtherLines, v \in YamlScalarTexts}
    \cup {<<" ", "k", " ", ":", " ", " ">> \o v \o <<" ">> : v \in YamlScalarTexts}

MaxFiles == 2

\* the calls of generate on one generator
MaxCalls == 2

\* the markdown files an input directory can hold: two with the same path but for
\* the extension, two that differ in an unsafe character, one with front matter,
\* and one under each of the other content directories
CandidateFiles ==
    {[dir |-> DocsDir, path |-> <<"d", "o", "c", "s", "/", "a", ".", "m", "d">>, text |-> <<"A">>],
     [dir |-> DocsDir, path |-> <<"d", "o", "c", "s", "/", "a", ".", "m", "d", "x">>, text |-> <<"-", "-", "-", "\n", "k", ":", " ", "v", "\n", "-", "-", "-", "\n", "B">>],
     [dir |-> DocsDir, path |-> <<"d", "o", "c", "s", "/", "b", "?", ".", "m", "d">>, text |-> <<"C">>],
     [dir |-> DocsDir, path |-> <<"d", "o", "c", "s", "/", "b", "_", ".", "m", "d">>, text |-> <<"D">>],
     [dir |-> BlogDir, path |-> <<"b", "l", "o", "g", "/", "a", ".", "m", "d">>, text |-> <<"E">>],
     [dir |-> PagesDir, path |-> <<"s", "r", "c", "/", "p", "a", "g", "e", "s", "/", "a", ".", "m", "d">>, text |-> <<"F">>]}

\* getMarkdownFiles's lists: distinct files in the order readdir gives them, at
\* most one of which cannot be read
SourceFiles ==
    UNION {{[i \in 1..n |->
               [dir |-> fs[i].dir, path |-> fs[i].path, text |-> fs[i].text,
                readable |-> i # bad]] :
              fs \in {x \in [1..n -> CandidateFiles] :
                        \A i, j \in 1..n : i # j => x[i] # x[j]},
              bad \in 0..n} :
           n \in 0..MaxFiles}

\* the input directories: with or without docusaurus.config.js
Sources == {[config |-> c, files |-> fs] : c \in BOOLEAN, fs \in SourceFiles}

NoSource == [config |-> FALSE, files |-> <<>>]

\* the values of --base-uri: the default, and one that is a URI itself
BaseUris == {DocsDir, <<"s", ":", "/", "/", "h">>}

\* a file in the output directory before generate is called, and what it holds
LeftoverPath == OutputDir \o <<"/", "o", "l", "d", ".", "j", "s", "o", "n">>
LeftoverText == <<"o", "l", "d">>

NoResult == [data |-> EmptyObject, threw |-> FALSE]

NoPath == <<>>
NoParse == [kind |-> "none", meta |-> <<>>, content |-> <<>>]

----------------------------------------------------------------------------
(* The state machine *)

InitOutputs ==
    /\ pc = "start"
    /\ filename = <<>>
    /\ files = {}
    /\ threw = FALSE
    /\ bridgePath = NoPath
    /\ hash = NoPath
    /\ yamlResult = NoResult
    /\ resources = <<>>
    /\ tools = <<>>
    /\ fileText = EmptyObject
    /\ dirIndex = 1
    /\ calls = 1
    /\ parsed = NoParse

\* one resource is about to be saved; cleanOutputDir has made the output directory
InitResource ==
    /\ InitOutputs
    /\ source = NoSource /\ baseUri = DocsDir
    /\ req = "resource"
    /\ uri \in Uris
    /\ toolName = <<>> /\ params = <<>> /\ content = <<>> /\ yamlInput = <<>>
    /\ dirs = {OutputDir}

\* one call is about to be pre-rendered; createToolsDirectory has made tools/
InitTool ==
    /\ InitOutputs
    /\ source = NoSource /\ baseUri = DocsDir
    /\ req = "tool"
    /\ toolName \in ToolNames
    /\ params \in ArgMaps
    /\ uri = <<>> /\ content = <<>> /\ yamlInput = <<>>
    /\ dirs = {OutputDir, PathJoin(<<OutputDir, ToolsName>>)}

\* one document is about to be parsed
InitDocument ==
    /\ InitOutputs
    /\ source = NoSource /\ baseUri = DocsDir
    /\ req = "document"
    /\ content \in Documents
    /\ uri = <<>> /\ toolName = <<>> /\ params = <<>> /\ yamlInput = <<>>
    /\ dirs = {OutputDir}

\* one metadata block is about to be parsed
InitYaml ==
    /\ InitOutputs
    /\ source = NoSource /\ baseUri = DocsDir
    /\ req = "yaml"
    /\ yamlInput \in YamlTexts
    /\ uri = <<>> /\ toolName = <<>> /\ params = <<>> /\ content = <<>>
    /\ dirs = {OutputDir}

\* generate is about to run on a new generator; the output directory holds a file
\* that an earlier generation has left
InitGenerate ==
    /\ pc = "start"
    /\ filename = <<>>
    /\ threw = FALSE
    /\ bridgePath = NoPath
    /\ hash = NoPath
    /\ yamlResult = NoResult
    /\ parsed = NoParse
    /\ resources = <<>>
    /\ tools = <<>>
    /\ dirIndex = 1
    /\ calls = 1
    /\ files = {LeftoverPath}
    /\ fileText = SetKey(EmptyObject, LeftoverPath, LeftoverText)
    /\ req = "generate"
    /\ source \in Sources
    /\ baseUri \in BaseUris
    /\ uri = <<>> /\ toolName = <<>> /\ params = <<>> /\ content = <<>>
    /\ yamlInput = <<>>
    /\ dirs = {OutputDir}

Init == InitResource \/ InitTool \/ InitDocument \/ InitYaml \/ InitGenerate

\* processMarkdownFile's call of saveResourceContent for one resource
WriteResource ==
    /\ req = "resource" /\ pc = "start"
    /\ LET st == saveResourceContent(
                    [dirs |-> dirs, files |-> files, threw |-> threw], uri)
       IN  /\ dirs' = st.dirs
           /\ files' = st.files
           /\ threw' = st.threw
    /\ filename' = encodeUriForFilename(uri)
    /\ pc' = "written"
    /\ UNCHANGED <<req, uri, toolName, params, content, bridgePath, hash, parsed,
                   yamlInput, yamlResult, genVars>>

\* the bridge resolves the same resource identifier
ResolveResource ==
    /\ req = "resource" /\ pc = "written"
    /\ bridgePath' = simulateBridgeUriToPath(uri)
    /\ pc' = "resolved"
    /\ UNCHANGED <<req, uri, toolName, params, content, filename, dirs, files,
                   threw, hash, parsed,
                   yamlInput, yamlResult, genVars>>

\* createSampleToolResponses's call of createBridgeCompatiblePaths for one call
WriteToolResponse ==
    /\ req = "tool" /\ pc = "start"
    /\ LET st == createBridgeCompatiblePaths(
                    [dirs |-> dirs, files |-> files, threw |-> threw],
                    toolDirOf(toolName), toolName, params)
       IN  /\ dirs' = st.dirs
           /\ files' = st.files
           /\ threw' = st.threw
    /\ pc' = "written"
    /\ UNCHANGED <<req, uri, toolName, params, content, filename, bridgePath, hash,
                   parsed,
                   yamlInput, yamlResult, genVars>>

\* the bridge resolves the same call
ResolveToolCall ==
    /\ req = "tool" /\ pc = "written"
    /\ bridgePath' = simulateBridgeToolToPath(toolName, params)
    /\ pc' = "resolved"
    /\ UNCHANGED <<req, uri, toolName, params, content, filename, dirs, files,
                   threw, hash, parsed,
                   yamlInput, yamlResult, genVars>>

\* hashParams is applied to the arguments of the call
HashParams ==
    /\ req = "tool" /\ pc = "resolved"
    /\ Len(params) >= 3
    /\ hash' = hashParams(params)
    /\ pc' = "hashed"
    /\ UNCHANGED <<req, uri, toolName, params, content, filename, dirs, files,
                   threw, bridgePath, parsed,
                   yamlInput, yamlResult, genVars>>

\* processMarkdownFile's call of parseFrontmatter
ParseDocument ==
    /\ req = "document" /\ pc = "start"
    /\ parsed' = parseFrontmatter(content)
    /\ pc' = "parsed"
    /\ UNCHANGED <<req, uri, toolName, params, content, filename, dirs, files,
                   threw, bridgePath, hash,
                   yamlInput, yamlResult, genVars>>

\* parseFrontmatter's call of parseYaml
ParseYaml ==
    /\ req = "yaml" /\ pc = "start"
    /\ yamlResult' = parseYaml(yamlInput)
    /\ pc' = "parsed"
    /\ UNCHANGED <<req, uri, toolName, params, content, filename, dirs, files,
                   threw, bridgePath, hash, parsed, yamlInput, genVars>>

\* the generator and the output file system as one record, and back
Generator ==
    [resources |-> resources, tools |-> tools,
     fs |-> [dirs |-> dirs, files |-> files, threw |-> threw, text |-> fileText]]

GeneratorBecomes(g) ==
    /\ resources' = g.resources
    /\ tools' = g.tools
    /\ dirs' = g.fs.dirs
    /\ files' = g.fs.files
    /\ threw' = g.fs.threw
    /\ fileText' = g.fs.text

otherVars ==
    <<req, uri, toolName, params, content, filename, bridgePath, hash, parsed,
      yamlInput, yamlResult, source, baseUri, calls>>

\* generate: cleanOutputDir
CleanOutputDir ==
    /\ req = "generate" /\ pc = "start"
    /\ dirs' = {OutputDir}
    /\ files' = {}
    /\ fileText' = EmptyObject
    /\ pc' = "cleaned"
    /\ UNCHANGED <<otherVars, resources, tools, threw, dirIndex>>

\* generate: isDocusaurusSource, and the error when it is false
IsDocusaurusSource ==
    /\ req = "generate" /\ pc = "cleaned"
    /\ threw' = ~source.config
    /\ pc' = IF source.config THEN "scanning" ELSE "failed"
    /\ UNCHANGED <<otherVars, resources, tools, dirs, files, fileText, dirIndex>>

\* processSourceDirectory: one round of its loop
ProcessSourceDirectory ==
    /\ req = "generate" /\ pc = "scanning"
    /\ GeneratorBecomes(processContentPath(Generator, source,
                                           ContentPaths[dirIndex], baseUri))
    /\ dirIndex' = dirIndex + 1
    /\ pc' = IF dirIndex = Len(ContentPaths) THEN "scanned" ELSE "scanning"
    /\ UNCHANGED otherVars

\* generate: generateManifest, and the end of generate
GenerateManifest ==
    /\ req = "generate" /\ pc = "scanned"
    /\ GeneratorBecomes(generateManifest(Generator))
    /\ pc' = IF generateManifest(Generator).fs.threw THEN "failed" ELSE "done"
    /\ UNCHANGED <<otherVars, dirIndex>>

\* generate is called again on the same generator with the same inputPath
GenerateAgain ==
    /\ req = "generate" /\ pc = "done"
    /\ calls < MaxCalls
    /\ calls' = calls + 1
    /\ dirIndex' = 1
    /\ pc' = "start"
    /\ UNCHANGED <<req, uri, toolName, params, content, filename, bridgePath, hash,
                   parsed, yamlInput, yamlResult, source, baseUri, resources,
                   tools, dirs, files, threw, fileText>>

NextResource == WriteResource \/ ResolveResource
NextTool == WriteToolResponse \/ ResolveToolCall \/ HashParams
NextDocument == ParseDocument
NextYaml == ParseYaml
NextGenerate ==
    CleanOutputDir \/ IsDocusaurusSource \/ ProcessSourceDirectory
    \/ GenerateManifest \/ GenerateAgain

Next == NextResource \/ NextTool \/ NextDocument \/ NextYaml \/ NextGenerate

Spec == Init /\ [][Next]_vars
SpecResource == InitResource /\ [][NextResource]_vars
SpecTool == InitTool /\ [][NextTool]_vars
SpecDocument == InitDocument /\ [][NextDocument]_vars
SpecYaml == InitYaml /\ [][NextYaml]_vars
SpecGenerate == InitGenerate /\ [][NextGenerate]_vars

----------------------------------------------------------------------------
(* What the specification says, stated without the code's operators *)

\* the indices at which "://" occurs in s
SchemeAt(s) == {i \in 1..(Len(s) - 2) : SubSeq(s, i, i + 2) = <<":", "/", "/">>}

\* s with every character of {*, ?, ", <, >, |} replaced by _
Underscored(s) ==
    [i \in 1..Len(s) |->
        IF s[i] \in {"*", "?", "\"", "<", ">", "|"} THEN "_" ELSE s[i]]

\* the text after the first "://" of s, or s when it has none
AfterScheme(s) ==
    IF SchemeAt(s) = {} THEN s ELSE SubSeq(s, SetMin(SchemeAt(s)) + 3, Len(s))

\* 4.4, value stringification: a string verbatim, a number or boolean as its
\* canonical text, an array as compact JSON
ClaimValueText(v) ==
    CASE v.type = "string" -> v.s
      [] v.type = "number" -> NumberToString(v.n)
      [] v.type = "boolean" -> IF v.b THEN <<"t", "r", "u", "e">>
                               ELSE <<"f", "a", "l", "s", "e">>
      [] OTHER -> <<"[">>
                  \o Join([i \in 1..Len(v.a) |-> NumberToString(v.a[i])], <<",">>)
                  \o <<"]">>

\* 4.4, the segment of one argument in the 1- and 2-argument rules: the value's
\* text, for a string with "://" the portion after it, then the substitution
ClaimSegment(v) ==
    Underscored(IF v.type = "string" THEN AfterScheme(v.s) ELSE ClaimValueText(v))

\* the file of the call path <operationName>/<rest> under tools/
ClaimToolFile(rest) == PathJoin(<<OutputDir, ToolsName, toolName, rest>>)

\* the two texts in ascending order
Ascending(x, y) == IF StrLess(y, x) THEN <<y, x>> ELSE <<x, y>>

\* the fs state createSampleToolResponses starts from
FreshToolsDir ==
    [dirs |-> {OutputDir, PathJoin(<<OutputDir, ToolsName>>)}, files |-> {},
     threw |-> FALSE]

----------------------------------------------------------------------------
(* C1 *)

\* C1: for every operation name and argument mapping, the file the generator writes
\* for the call (createBridgeCompatiblePaths) is the file at the path the bridge
\* computes for the same call (simulateBridgeToolToPath).
C1_WriterPathIsResolverPath ==
    (req = "tool" /\ pc = "resolved") => files = {bridgeFile(bridgePath)}

----------------------------------------------------------------------------
(* C2 *)

\* C2: for every resource identifier, the file saveResourceContent writes
\* (resources/ + encodeUriForFilename(uri) + .json) is the file at the path
\* simulateBridgeUriToPath computes for that identifier.
C2_ResourcePathIsResolverPath ==
    (req = "resource" /\ pc = "resolved") => files = {bridgeFile(bridgePath)}

----------------------------------------------------------------------------
(* C3 *)

\* the text encodeUriForFilename retains: the part after "://" when the identifier
\* holds exactly one "://" (splitting yields exactly two parts), else all of it
C3_Retained(u) ==
    IF Cardinality(SchemeAt(u)) = 1
    THEN SubSeq(u, SetMin(SchemeAt(u)) + 3, Len(u))
    ELSE u

\* C3: encodeUriForFilename returns the retained text with every character of
\* {*, ?, ", <, >, |} replaced by _ and no other character altered, added or removed.
C3_EncodeRetainsAndSubstitutes ==
    (req = "resource" /\ pc # "start") =>
        LET r == C3_Retained(uri)
        IN  /\ Len(filename) = Len(r)
            /\ \A i \in 1..Len(r) :
                  filename[i] = IF r[i] \in {"*", "?", "\"", "<", ">", "|"}
                                THEN "_" ELSE r[i]

\* docs://A? has been encoded as A_
C3_Witness ==
    /\ pc = "written"
    /\ uri = DocsScheme \o <<"A", "?">>
    /\ filename = <<"A", "_">>

----------------------------------------------------------------------------
(* C4 *)

\* C4: with one argument (a string, number or boolean), the call path is
\* <operationName>/<v>.json, v being the value's text, reduced to the portion after
\* "://" when it is a string containing "://", with the substitution applied: the
\* writer stores the response there and the resolver computes that path.
C4_OneArgumentPath ==
    (req = "tool" /\ pc = "resolved" /\ Len(params) = 1
        /\ params[1].v.type # "object") =>
        LET expected == ClaimToolFile(ClaimSegment(params[1].v) \o DotJson)
        IN  /\ files = {expected}
            /\ bridgeFile(bridgePath) = expected

----------------------------------------------------------------------------
(* C5 *)

\* the arguments with their two values exchanged
C5_Swapped(ps) ==
    <<[k |-> ps[1].k, v |-> ps[2].v], [k |-> ps[2].k, v |-> ps[1].v]>>

\* C5: with two arguments, the call path is <operationName>/<first>/<second>.json,
\* first and second being the two stringified, substituted values in ascending
\* order; exchanging the two values gives the same path.
C5_TwoArgumentPath ==
    (req = "tool" /\ pc = "resolved" /\ Len(params) = 2) =>
        LET sorted == Ascending(ClaimSegment(params[1].v), ClaimSegment(params[2].v))
            expected == PathJoin(<<ClaimToolFile(sorted[1]), sorted[2] \o DotJson>>)
        IN  /\ files = {expected}
            /\ bridgeFile(bridgePath) = expected
            /\ simulateBridgeToolToPath(toolName, C5_Swapped(params)) = bridgePath
            /\ createBridgeCompatiblePaths(FreshToolsDir, toolDirOf(toolName),
                                           toolName, C5_Swapped(params)).files = files

----------------------------------------------------------------------------
(* C6 *)

\* name=value pairs, the names in ascending order, joined by &
C6_Canonical(ps) ==
    LET n == Len(ps)
        order == CHOOSE f \in [1..n -> 1..n] :
                    \A i, j \in 1..n : i < j => StrLess(ps[f[i]].k, ps[f[j]].k)
    IN  Join([i \in 1..n |->
                 ps[order[i]].k \o <<"=">> \o ClaimValueText(ps[order[i]].v)],
             <<"&">>)

\* the base64 text of s with / and + replaced by _ and = removed
C6_Hash(s) ==
    LET b == Base64(s)
    IN  SelectSeq([i \in 1..Len(b) |-> IF b[i] \in {"/", "+"} THEN "_" ELSE b[i]],
                  LAMBDA c : c # "=")

C6_HashChars ==
    {Base64Alphabet[i] : i \in 1..62} \cup {"_"}

\* C6: with three or more arguments, the call path is <operationName>/<h>.json,
\* h being the complete, untruncated base64 text of the canonical string with / and
\* + replaced by _ and = removed (4 characters for every 3 bytes, rounded up, of
\* letters, digits and _ only): the resolver computes that path and hashParams
\* returns that h.
C6_HashedPath ==
    (req = "tool" /\ pc \in {"resolved", "hashed"} /\ Len(params) >= 3) =>
        LET canonical == C6_Canonical(params)
            h == C6_Hash(canonical)
        IN  /\ bridgePath
                 = ToolsName \o <<"/">> \o toolName \o <<"/">> \o h \o DotJson
            /\ Len(h) = (4 * Len(canonical) + 2) \div 3
            /\ \A i \in 1..Len(h) : h[i] \in C6_HashChars
            /\ pc = "hashed" => hash = h

----------------------------------------------------------------------------
(* C7 *)

\* C7: with zero arguments, the call path is <operationName>.json directly under
\* tools/, beside the operation's directory and not inside it: the writer stores
\* the response there and the resolver computes that path.
C7_ZeroArgumentsSiblingFile ==
    (req = "tool" /\ pc # "start" /\ params = <<>>) =>
        /\ ~threw
        /\ files = {OutputDir \o <<"/">> \o ToolsName \o <<"/">> \o toolName
                    \o DotJson}
        /\ \A f \in files : toolDirOf(toolName) \notin Ancestors(f)
        /\ pc = "resolved" =>
              bridgePath = ToolsName \o <<"/">> \o toolName \o DotJson

\* list_resources with {} has been written to and resolved to
\* tools/list_resources.json
C7_Witness ==
    /\ req = "tool" /\ pc = "resolved"
    /\ toolName = ListResources /\ params = <<>>
    /\ files = {OutputDir \o <<"/">> \o ToolsName \o <<"/">> \o ListResources
                \o DotJson}
    /\ bridgePath = ToolsName \o <<"/">> \o ListResources \o DotJson

----------------------------------------------------------------------------
(* C8 *)

\* C8: in the 1- and 2-argument rules, a number or boolean is stringified as its
\* canonical text and an array as compact JSON text, by the writer and by the
\* resolver (strings, used verbatim, are the subject of C4).
C8_ValueStringification ==
    (req = "tool" /\ pc = "resolved" /\ Len(params) \in {1, 2}
        /\ \A i \in 1..Len(params) : params[i].v.type # "string") =>
        LET expected ==
                IF Len(params) = 1
                THEN ClaimToolFile(ClaimValueText(params[1].v) \o DotJson)
                ELSE LET sorted == Ascending(ClaimValueText(params[1].v),
                                             ClaimValueText(params[2].v))
                     IN  PathJoin(<<ClaimToolFile(sorted[1]), sorted[2] \o DotJson>>)
        IN  /\ files = {expected}
            /\ bridgeFile(bridgePath) = expected

----------------------------------------------------------------------------
(* C9 *)

\* C9: for every scheme s and path p that do not contain "://", the identifier
\* s://p is encoded as the bare path p is.
C9_SchemeStripped ==
    (req = "resource" /\ pc # "start") =>
        \A k \in SchemeAt(uri) :
            LET s == SubSeq(uri, 1, k - 1)
                p == SubSeq(uri, k + 3, Len(uri))
            IN  (SchemeAt(s) = {} /\ SchemeAt(p) = {}) =>
                    filename = encodeUriForFilename(p)

\* docs://A/A has been encoded as A/A
C9_Witness ==
    /\ pc = "written"
    /\ uri = DocsScheme \o <<"A", "/", "A">>
    /\ filename = <<"A", "/", "A">>

----------------------------------------------------------------------------
(* C10 *)

\* a line holding the fence and nothing else but trailing blanks
C10_IsFenceLine(l) == StartsWith(l, Fence) /\ \A i \in 4..Len(l) : l[i] = " "

\* C10: when the text is a fence line, one or more lines, a closing fence line and
\* the rest of the document, parseFrontmatter finds the block and returns as body
\* exactly the text after the closing fence line.
C10_BodyIsTextAfterClosingFence ==
    (req = "document" /\ pc = "parsed") =>
        LET ls == Split(content, <<"\n">>)
            closers == {c \in 3..(Len(ls) - 1) : C10_IsFenceLine(ls[c])}
        IN  (/\ Len(ls) >= 4
             /\ C10_IsFenceLine(ls[1])
             /\ ~C10_IsFenceLine(ls[2])
             /\ closers # {}) =>
                /\ parsed.kind = "yaml"
                /\ parsed.content
                     = Join(SubSeq(ls, SetMin(closers) + 1, Len(ls)), <<"\n">>)

----------------------------------------------------------------------------
(* C11 *)

\* C11: whenever neither the fenced nor the JSON-style pattern matches at the start
\* of the text, or the JSON-style block fails to parse, parseFrontmatter returns the
\* empty mapping and the full original text as body; in particular a text whose
\* first line starts with neither --- nor { comes back whole.
C11_NoBlockGivesWholeText ==
    (req = "document" /\ pc = "parsed") =>
        LET yamlMatch == blockMatch(content, Fence, Fence)
            jsonMatch == blockMatch(content, <<"{">>, <<"}">>)
            whole == /\ parsed.kind = "none"
                     /\ parsed.meta = <<>>
                     /\ parsed.content = content
        IN  /\ (~yamlMatch.matched
                  /\ (~jsonMatch.matched
                        \/ ~JsonObjectParses(<<"{">> \o jsonMatch.block \o <<"}">>)))
                 => whole
            /\ (~StartsWith(content, Fence) /\ ~StartsWith(content, <<"{">>))
                 => whole

\* the JSON-style block of {, B, }, B has failed to parse and the text came back whole
C11_Witness ==
    /\ req = "document" /\ pc = "parsed"
    /\ content = <<"{", "\n", "B", "\n", "}", "\n", "B">>
    /\ blockMatch(content, <<"{">>, <<"}">>).matched
    /\ parsed.kind = "none"
    /\ parsed.content = content

----------------------------------------------------------------------------
(* The multi-line forms as the specification words them (4.2) *)

YamlLines == Split(yamlInput, <<"\n">>)

\* the lines after the first line of the text
Following == Tail(YamlLines)

NonBlank == {i \in 1..Len(Following) : Trim(Following[i]) # <<>>}

\* the indentation of the first non-blank following line
BaseIndent ==
    IF NonBlank = {} THEN 0 ELSE IndentOf(Following[SetMin(NonBlank)])

\* the non-blank following lines indented less than the base indent
Dedented == {i \in NonBlank : IndentOf(Following[i]) < BaseIndent}

\* the number of following lines that belong to the block
BlockLength == IF Dedented = {} THEN Len(Following) ELSE SetMin(Dedented) - 1

\* the text has been parsed and its first line is the entry of key k with value v
ParsedBlockOf(v) ==
    /\ req = "yaml" /\ pc = "parsed"
    /\ YamlLines[1] \in {<<"k", ":">> \o v, <<"k", ":", " ">> \o v}

----------------------------------------------------------------------------
(* C12 *)

\* C12: for a key whose value is exactly |, the value is the following lines up to
\* the first non-blank line indented less than the base indent, each non-blank line
\* without its first baseIndent characters, each blank line as the empty string,
\* joined with newline.
C12_LiteralBlock ==
    ParsedBlockOf(<<"|">>) =>
        yamlResult.data[<<"k">>]
          = StrVal(Join([i \in 1..BlockLength |->
                            IF i \in NonBlank
                            THEN SubSeq(Following[i], BaseIndent + 1,
                                        Len(Following[i]))
                            ELSE <<>>],
                        <<"\n">>))

\* a literal block of the lines a and b (b with trailing blanks, under a deeper
\* line c) taken up to the entry t
C12_Witness ==
    /\ ParsedBlockOf(<<"|">>)
    /\ Following = <<<<" ", " ", "a">>, <<" ", " ", " ", " ", "c">>,
                     <<"t", ":", " ", "v">>>>
    /\ yamlResult.data[<<"k">>] = StrVal(<<"a", "\n", " ", " ", "c">>)
    /\ yamlResult.data[<<"t">>] = StrVal(<<"v">>)

----------------------------------------------------------------------------
(* C13 *)

\* the indices of s that are in S, in ascending order
RECURSIVE Ordered(_)
Ordered(S) ==
    IF S = {} THEN <<>> ELSE <<SetMin(S)>> \o Ordered(S \ {SetMin(S)})

\* C13: for a key whose value is exactly >, the value is the non-blank following
\* lines up to the same stopping line, each trimmed, joined with one space; blank
\* lines contribute nothing.
C13_FoldedBlock ==
    ParsedBlockOf(<<">">>) =>
        LET kept == Ordered({i \in NonBlank : i <= BlockLength})
        IN  yamlResult.data[<<"k">>]
              = StrVal(Join([j \in 1..Len(kept) |-> Trim(Following[kept[j]])],
                            <<" ">>))

\* a folded block of the lines a, blank, b with trailing blanks has given "a b"
C13_Witness ==
    /\ ParsedBlockOf(<<">">>)
    /\ Following = <<<<" ", " ", "a">>, <<>>, <<" ", " ", "b", " ", " ">>>>
    /\ yamlResult.data[<<"k">>] = StrVal(<<"a", " ", "b">>)

----------------------------------------------------------------------------
(* C14 *)

\* the elements the lines give: a line that starts with "- " adds its remainder, any
\* other non-blank line is appended to the previous element after a space
RECURSIVE C14_Elements(_)
C14_Elements(ls) ==
    IF ls = <<>> THEN <<>>
    ELSE LET prev == C14_Elements(SubSeq(ls, 1, Len(ls) - 1))
             l == Trim(ls[Len(ls)])
         IN  IF l = <<>> THEN prev
             ELSE IF StartsWith(l, <<"-", " ">>)
             THEN Append(prev, SubSeq(l, 3, Len(l)))
             ELSE [prev EXCEPT ![Len(prev)] = @ \o <<" ">> \o l]

----------------------------------------------------------------------------
(* C15 *)

\* C15: no error leaves parseYaml, whatever the text; every value of the mapping is
\* a string, a number, a boolean or an array, and a single-line value outside the
\* supported forms (here a bracketed text that is no JSON array, half-quoted text,
\* braces) is kept as the string it is.
C15_NeverRaises ==
    (req = "yaml" /\ pc = "parsed") =>
        /\ ~yamlResult.threw
        /\ \A key \in DOMAIN yamlResult.data :
              yamlResult.data[key].type
                \in {"string", "number", "boolean", "list", "json"}
        /\ \A v \in {<<"[", "a", "]">>, <<"[", "1", ",", "]">>, <<"\"", "a">>,
                     <<"{", "a", "}">>, <<"1", "-">>} :
              yamlInput = <<"k", ":", " ">> \o v =>
                  yamlResult.data[<<"k">>] = StrVal(v)

\* the value [a], which JSON.parse rejects, has been kept as a string
C15_Witness ==
    /\ req = "yaml" /\ pc = "parsed"
    /\ yamlInput = <<"k", ":", " ", "[", "a", "]">>
    /\ ~yamlResult.threw
    /\ yamlResult.data[<<"k">>] = StrVal(<<"[", "a", "]">>)

----------------------------------------------------------------------------
(* generate as its tests and the README describe it *)

\* generate has completed successfully
Generated == req = "generate" /\ pc = "done"

\* the entries of the list_resources response under the output directory
ListedEntries ==
    fileText[OutputDir \o <<"/">> \o ToolsName \o <<"/">> \o ListResources
             \o DotJson]

\* the body of a source file: its text without the front matter
BodyOf(file) == parseFrontmatter(file.text).content

----------------------------------------------------------------------------
(* C16 *)

\* C16: after a successful generate, for every entry u of the list_resources
\* response, the path the resolver computes for get_resource with {uri: u} is a file
\* under the output directory that carries the uri and the content of the resource
\* the entry stands for.
C16_ListedResourcesResolve ==
    Generated =>
        \A i \in 1..Len(ListedEntries) :
            LET p == bridgeFile(simulateBridgeToolToPath(
                         GetResource,
                         <<[k |-> UriKey, v |-> StrVal(ListedEntries[i])]>>))
            IN  /\ p \in files
                /\ fileText[p].uri = resources[i].uri
                /\ fileText[p].content = resources[i].content

----------------------------------------------------------------------------
(* C17 *)

\* C17: no entry of the list_resources response contains "://".
C17_EntriesHaveNoScheme ==
    Generated =>
        \A i \in 1..Len(ListedEntries) : SchemeAt(ListedEntries[i]) = {}

----------------------------------------------------------------------------
(* C18 *)

\* C18: after a successful generate the output directory holds the file mcp.json
\* and the directories tools and resources.
C18_OutputStructure ==
    Generated =>
        /\ OutputDir \o <<"/">> \o McpJson \in files
        /\ OutputDir \o <<"/">> \o ToolsName \in dirs
        /\ OutputDir \o <<"/">> \o ResourcesName \in dirs

----------------------------------------------------------------------------
(* C19 *)

\* C19: when one markdown file cannot be processed, every other file, of the same
\* content directory or of another, still becomes a resource.
C19_OtherFilesStillProcessed ==
    (req = "generate" /\ pc \in {"scanned", "done"}) =>
        \A i \in 1..Len(source.files) :
            source.files[i].readable =>
                \E j \in 1..Len(resources) :
                    resources[j].content = BodyOf(source.files[i])

----------------------------------------------------------------------------
(* C20 *)

\* C20: the resource of a markdown file under docs/ has a URI of scheme docs://, the
\* resource of a markdown file under blog/ a URI of scheme blog://.
C20_SchemeFollowsDirectory ==
    Generated =>
        \A i \in 1..Len(source.files), j \in 1..Len(resources) :
            resources[j].content = BodyOf(source.files[i]) =>
                /\ source.files[i].dir = DocsDir =>
                      StartsWith(resources[j].uri, DocsDir \o SchemeSep)
                /\ source.files[i].dir = BlogDir =>
                      StartsWith(resources[j].uri, BlogDir \o SchemeSep)

----------------------------------------------------------------------------
(* C21 *)

\* generate has ended, with or without an error
Ended == req = "generate" /\ pc \in {"done", "failed"}

\* C21: generate on a directory that holds markdown files and no Docusaurus
\* configuration file completes, and each of its markdown files is a resource.
C21_StandaloneDirectoryAccepted ==
    (Ended /\ ~source.config /\ source.files # <<>>
       /\ \A i \in 1..Len(source.files) : source.files[i].readable) =>
        /\ pc = "done"
        /\ \A i \in 1..Len(source.files) :
               \E j \in 1..Len(resources) :
                   resources[j].content = BodyOf(source.files[i])

----------------------------------------------------------------------------
(* C22 *)

\* v is wrapped in the pair of characters open and close
ClaimWrapped(v, open, close) == Len(v) >= 2 /\ v[1] = open /\ v[Len(v)] = close

\* the value the specification's forms give the single-line text v, the first
\* matching form deciding
ClaimSingleLine(v) ==
    IF ClaimWrapped(v, "[", "]") /\ JsonArrayParse(v).ok
    THEN JsonVal(JsonArrayParse(v).items)
    ELSE IF ClaimWrapped(v, "\"", "\"") \/ ClaimWrapped(v, "'", "'")
    THEN StrVal(SubSeq(v, 2, Len(v) - 1))
    ELSE IF v = TrueText THEN BoolVal(TRUE)
    ELSE IF v = FalseText THEN BoolVal(FALSE)
    ELSE IF IsNumberText(v) THEN NumVal(ToNumber(v))
    ELSE StrVal(v)

\* C22: an empty value, | and > give the multi-line value; any other value v gives
\* the JSON array when it is wrapped in [ ] and parses as one, else the inner text
\* when it is wrapped in matching quotes, else the boolean for true and false, else
\* the number when it is one, else v itself.
C22_ValueForms ==
    (req = "yaml" /\ pc = "parsed") =>
        /\ \A v \in {<<>>, <<"|">>, <<">">>} :
              YamlLines[1] \in {<<"k", ":">> \o v, <<"k", ":", " ">> \o v} =>
                  yamlResult.data[<<"k">>].type
                      = (IF v = <<>> THEN "list" ELSE "string")
        /\ \A v \in YamlScalarTexts :
              yamlInput = <<"k", ":", " ">> \o v =>
                  yamlResult.data[<<"k">>] = ClaimSingleLine(v)

----------------------------------------------------------------------------
(* C23 *)

\* the lines of the text that are entries: not blank, no comment, with a colon
ClaimEntryLines ==
    {i \in 1..Len(YamlLines) :
        /\ Trim(YamlLines[i]) # <<>>
        /\ Trim(YamlLines[i])[1] # "#"
        /\ \E j \in 1..Len(YamlLines[i]) : YamlLines[i][j] = ":"}

\* the position of the first colon of line i
ClaimFirstColon(i) == SetMin({j \in 1..Len(YamlLines[i]) : YamlLines[i][j] = ":"})

ClaimKey(i) == Trim(SubSeq(YamlLines[i], 1, ClaimFirstColon(i) - 1))

ClaimCandidate(i) ==
    Trim(SubSeq(YamlLines[i], ClaimFirstColon(i) + 1, Len(YamlLines[i])))

\* every entry of the text has a single-line value
ClaimSingleLineText ==
    \A i \in ClaimEntryLines : ClaimCandidate(i) \notin {<<>>, <<"|">>, <<">">>}

\* C23: in a text of single-line entries the keys of the mapping are the trimmed
\* texts before the first colon of the lines that are not blank, no comment and hold
\* a colon, and the value of a key comes from the trimmed text after the first colon
\* of the last such line with that key, later colons included.
C23_LineSplitting ==
    (req = "yaml" /\ pc = "parsed" /\ ClaimSingleLineText) =>
        /\ DOMAIN yamlResult.data = {ClaimKey(i) : i \in ClaimEntryLines}
        /\ \A i \in ClaimEntryLines :
              (\A j \in ClaimEntryLines : j > i => ClaimKey(j) # ClaimKey(i)) =>
                  yamlResult.data[ClaimKey(i)] = scalarValue(ClaimCandidate(i)).value

\* a comment that holds a colon has been skipped and the value a: b kept whole
C23_Witness ==
    /\ req = "yaml" /\ pc = "parsed"
    /\ yamlInput = Join(<<<<" ", "#", "c", ":", "d">>,
                          <<"k", ":", " ", "a", ":", " ", "b">>,
                          <<"t", ":", " ", "v">>>>, <<"\n">>)
    /\ DOMAIN yamlResult.data = {<<"k">>, <<"t">>}
    /\ yamlResult.data[<<"k">>] = StrVal(<<"a", ":", " ", "b">>)

----------------------------------------------------------------------------
(* C24 *)

ManifestPath == OutputDir \o <<"/">> \o McpJson

ListResourcesPath ==
    OutputDir \o <<"/">> \o ToolsName \o <<"/">> \o ListResources \o DotJson

\* C24: while the markdown files are being processed there is no list_resources
\* response; once generate is done the response holds one entry for each gathered
\* resource, in the order of gathering, and entry i is encodeUriForFilename of the
\* uri of resource i of the manifest.
C24_ListAfterProcessing ==
    /\ (req = "generate" /\ pc \in {"cleaned", "scanning", "scanned"}) =>
           ListResourcesPath \notin files
    /\ Generated =>
           /\ Len(ListedEntries) = Len(resources)
           /\ Len(fileText[ManifestPath].resources) = Len(resources)
           /\ \A i \in 1..Len(resources) :
                  /\ fileText[ManifestPath].resources[i] = resources[i].uri
                  /\ ListedEntries[i]
                       = encodeUriForFilename(fileText[ManifestPath].resources[i])

\* two resources with different identifiers have been listed
C24_Witness ==
    /\ Generated
    /\ Len(resources) >= 2
    /\ Len(ListedEntries) = Len(resources)
    /\ ListedEntries[1] # ListedEntries[2]

----------------------------------------------------------------------------
(* C25 *)

\* C25: for every line of the text as the start line, parseMultilineValue returns a
\* lastIndex that is at least the index of the start line and at most the number of
\* lines, so that the cursor parseYaml continues with, lastIndex + 1, is beyond the
\* start line.
C25_CursorAdvances ==
    req = "yaml" =>
        \A startIndex \in 0..(Len(YamlLines) - 1) :
            LET lastIndex == parseMultilineValue(YamlLines, startIndex).lastIndex
            IN  /\ startIndex <= lastIndex
                /\ lastIndex <= Len(YamlLines)
                /\ lastIndex + 1 > startIndex

\* the array of k has ended at the line right after it, which has been parsed as
\* an entry of its own
C25_Witness ==
    /\ req = "yaml" /\ pc = "parsed"
    /\ yamlInput = <<"k", ":", "\n", "t", ":", " ", "v">>
    /\ parseMultilineValue(YamlLines, 0).lastIndex = 0
    /\ DOMAIN yamlResult.data = {<<"k">>, <<"t">>}

----------------------------------------------------------------------------
(* C26 *)

\* a top-level entry, and the item lines of the model
ClaimEntryLine == <<"t", ":", " ", "v">>
ClaimItemLines == {<<"-", " ", "a">>, <<" ", " ", "-", " ", "b">>}

\* the following lines at which the top-level entry comes right after the key or
\* after item lines only
ClaimEntryAfterItems ==
    {j \in 1..Len(Following) :
        /\ Following[j] = ClaimEntryLine
        /\ \A i \in 1..(j - 1) : Following[i] \in ClaimItemLines}

\* C26: when the line t: v follows the key k of empty value, directly or after item
\* lines at any indentation, t is an entry of the mapping with the value v and no
\* element of k's array holds the text of the line.
C26_EntryNotAbsorbed ==
    (ParsedBlockOf(<<>>) /\ ClaimEntryAfterItems # {}) =>
        /\ <<"t">> \in DOMAIN yamlResult.data
        /\ yamlResult.data[<<"t">>] = StrVal(<<"v">>)
        /\ \A n \in 1..Len(yamlResult.data[<<"k">>].a) :
              ~EndsWith(yamlResult.data[<<"k">>].a[n], ClaimEntryLine)

----------------------------------------------------------------------------
(* C27 *)

\* the source files generate has made resources of
ProcessedFiles ==
    {i \in 1..Len(source.files) :
        \E j \in 1..Len(resources) :
            /\ resources[j].uri = uriOf(source.files[i].path, baseUri)
            /\ resources[j].content = BodyOf(source.files[i])}

\* the paths generate writes for source file i: the artifact of its resource under
\* resources/ and its get_resource response
ArtifactPath(i) == resourceFilePath(uriOf(source.files[i].path, baseUri))
ResponsePath(i) ==
    oneArgPath(toolDirOf(GetResource), StrVal(uriOf(source.files[i].path, baseUri)))

\* C27: after generate distinct source files have distinct artifact paths and
\* distinct get_resource response paths, the artifact of each file holds that file's
\* body, and the get_resource response of a file holds the same body as its
\* artifact.
C27_DistinctArtifacts ==
    Generated =>
        /\ \A i, j \in ProcessedFiles :
              i # j => /\ ArtifactPath(i) # ArtifactPath(j)
                       /\ ResponsePath(i) # ResponsePath(j)
        /\ \A i \in ProcessedFiles :
              /\ fileText[ArtifactPath(i)].text = BodyOf(source.files[i])
              /\ fileText[ResponsePath(i)].content = fileText[ArtifactPath(i)].text

----------------------------------------------------------------------------
(* C28 *)

\* calls with one argument to compare a call with: the values of SecondValues,
\* among them a value that holds a slash
ClaimOneArgumentCalls == {<<[k |-> <<"a">>, v |-> v]>> : v \in SecondValues}

\* C28: the file of a call that has been written and resolved is not the file of
\* any call to the same operation with another number of arguments, neither by the
\* resolver's paths nor by the writer's.
C28_NoCollisionAcrossCounts ==
    (req = "tool" /\ pc = "resolved") =>
        \A q \in ClaimOneArgumentCalls \cup {<<>>} :
            Len(q) # Len(params) =>
                /\ bridgeFile(simulateBridgeToolToPath(toolName, q))
                     # bridgeFile(bridgePath)
                /\ Len(q) = 1 =>
                     oneArgPath(toolDirOf(toolName), q[1].v) \notin files

----------------------------------------------------------------------------
(* C29 *)

\* a generator as its constructor leaves it, with the output directory as
\* cleanOutputDir leaves it
NewGenerator ==
    [resources |-> <<>>, tools |-> <<>>,
     fs |-> [dirs |-> {OutputDir}, files |-> {}, threw |-> FALSE,
             text |-> EmptyObject]]

\* the generator after a single call of generate on the source
SingleCall ==
    LET docs == processContentPath(NewGenerator, source, ContentPaths[1], baseUri)
        blog == processContentPath(docs, source, ContentPaths[2], baseUri)
        pages == processContentPath(blog, source, ContentPaths[3], baseUri)
    IN  generateManifest(pages)

\* C29: whenever generate is done, after the first call or a later one, the manifest
\* it has written is the manifest of a single call, and this.resources and
\* this.tools are as a single call leaves them.
C29_SecondCallSameManifest ==
    Generated =>
        /\ fileText[ManifestPath] = SingleCall.fs.text[ManifestPath]
        /\ resources = SingleCall.resources
        /\ tools = SingleCall.tools

----------------------------------------------------------------------------
(* C30 *)

\* C30: when generate has failed on an input directory without a configuration
\* file, the file that was in the output directory before the call is still there
\* and holds what it held.
C30_FailureLeavesOutput ==
    (req = "generate" /\ pc = "failed" /\ ~source.config) =>
        /\ threw
        /\ LeftoverPath \in files
        /\ fileText[LeftoverPath] = LeftoverText

====
